---- MODULE Spec2Model ----
(***************************************************************************)
(* Kalkayotl: the Inference class of kalkayotl/inference.py.               *)
(*                                                                         *)
(* The model follows one Inference object through its life: constructor,   *)
(* load_data, setup, run, and (possibly in a later session over the same   *)
(* output directory) load_trace.  Numbers are integers; a missing value    *)
(* of a catalog is NaN.                                                    *)
(***************************************************************************)
EXTENDS FiniteSets, Integers, Sequences, TLC

(***************************************************************************)
(* Bounds of the model.                                                    *)
(***************************************************************************)
\* largest number of rows of the catalog file
MaxStars == 2
\* largest number of optimisation trials (opt_args["trials"])
MaxTrials == 2
\* largest length of the loss history of one trial (approx.hist)
MaxHist == 2
MaxDraws == 2
MaxClassify == 2

(***************************************************************************)
(* Numbers that are not integers.                                          *)
(***************************************************************************)
\* numpy.nan: a missing value of the catalog, an undefined loss
NaN == -1000
\* numpy.inf: a loss that overflowed
Inf == 1000

isfinite(x) == x # NaN /\ x # Inf

\* IEEE arithmetic: any operation on NaN is NaN
Sub(x, y) == IF x = NaN \/ y = NaN THEN NaN ELSE x - y
Add(x, y) == IF x = NaN \/ y = NaN THEN NaN ELSE x + y

\* Arrays are sequences: element i of an array of the source (0-based) is
\* element i + 1 here.  A matrix of side n is the sequence of its rows,
\* one after the other: entry (i, j) is element i*n + j + 1.
Eval(f) == f \o <<>>
len(a) == Len(a)
EmptyArr == <<>>
at(a, i) == a[i + 1]
entry(m, n, i, j) == m[i * n + j + 1]
row(q, n) == (q - 1) \div n
col(q, n) == (q - 1) % n

\* the increasing enumeration of a finite set of naturals (numpy.where)
RECURSIVE SortedSeq(_)
SortedSeq(S) ==
    IF S = {} THEN <<>>
    ELSE LET m == CHOOSE x \in S : \A y \in S : x <= y
         IN  <<m>> \o SortedSeq(S \ {m})

(***************************************************************************)
(* Inference.__init__: the column tables.                                  *)
(***************************************************************************)
gaia_observables ==
    <<"ra", "dec", "parallax", "pmra", "pmdec", "radial_velocity",
      "ra_error", "dec_error", "parallax_error", "pmra_error", "pmdec_error",
      "radial_velocity_error",
      "ra_dec_corr", "ra_parallax_corr", "ra_pmra_corr", "ra_pmdec_corr",
      "dec_parallax_corr", "dec_pmra_corr", "dec_pmdec_corr",
      "parallax_pmra_corr", "parallax_pmdec_corr",
      "pmra_pmdec_corr">>

id_name == "source_id"

ValidD == {1, 3, 6}

\* the index lists of the constructor, 0-based as in the source
index_obs(dim) ==
    CASE dim = 1 -> <<0, 1, 2, 8>>
      [] dim = 3 -> <<0, 1, 2, 6, 7, 8, 12, 13, 16>>
      [] dim = 6 -> [i \in 1..22 |-> i - 1]
      [] OTHER   -> <<>>

index_mu(dim) ==
    CASE dim = 1 -> <<2>>
      [] dim = 3 -> <<0, 1, 2>>
      [] dim = 6 -> <<0, 1, 2, 3, 4, 5>>
      [] OTHER   -> <<>>

index_sd(dim) ==
    CASE dim = 1 -> <<8>>
      [] dim = 3 -> <<6, 7, 8>>
      [] dim = 6 -> <<6, 7, 8, 9, 10, 11>>
      [] OTHER   -> <<>>

index_corr(dim) ==
    CASE dim = 1 -> <<>>
      [] dim = 3 -> <<12, 13, 16>>
      [] dim = 6 -> <<12, 13, 14, 15, 16, 17, 18, 19, 20, 21>>
      [] OTHER   -> <<>>

\* index_nan when the two radial velocity columns are not removed from it
index_nan_keep_rv(dim) == index_obs(dim)

\* for D = 6 the radial velocity and its error may be missing
index_nan(dim) ==
    IF dim = 6
    THEN SelectSeq(index_obs(dim), LAMBDA i : i # 5 /\ i # 11)
    ELSE index_obs(dim)

Names(idx) == [k \in 1..Len(idx) |-> gaia_observables[idx[k] + 1]]

names_obs(dim)  == Names(index_obs(dim))
names_mu(dim)   == Names(index_mu(dim))
names_sd(dim)   == Names(index_sd(dim))
names_corr(dim) == Names(index_corr(dim))
names_nan(dim)  == Names(index_nan(dim))

\* self.idx_plx as the constructor leaves it
init_idx_plx(dim) == IF dim = 1 THEN 0 ELSE 2
idx_pma == 3
idx_pmd == 4

(***************************************************************************)
(* The catalog file (file_data).  A row has an identifier cell, a text,    *)
(* and one numeric cell per Gaia column; an empty cell reads as NaN.       *)
(***************************************************************************)
Digits == <<"0", "1", "2", "3", "4", "5", "6", "7", "8", "9">>

IsDigit(c) == \E d \in 1..10 : Digits[d] = c
DigitVal(c) == (CHOOSE d \in 1..10 : Digits[d] = c) - 1

\* a cell that the CSV reader takes for an integer
IsIntText(s) == Len(s) > 0 /\ \A i \in 1..Len(s) : IsDigit(s[i])

RECURSIVE ParseInt(_)
ParseInt(s) ==
    IF s = <<>> THEN 0
    ELSE 10 * ParseInt(SubSeq(s, 1, Len(s) - 1)) + DigitVal(s[Len(s)])

\* str() of a natural number
RECURSIVE StrOfInt(_)
StrOfInt(n) ==
    IF n < 10 THEN <<Digits[n + 1]>>
    ELSE StrOfInt(n \div 10) \o <<Digits[(n % 10) + 1]>>

StrVal(s) == [t |-> "str", s |-> s]
IntVal(n) == [t |-> "int", n |-> n]

\* pandas.read_csv decides the type of a column from all of its cells
InferColumn(cells) ==
    IF \A k \in 1..Len(cells) : IsIntText(cells[k])
    THEN [k \in 1..Len(cells) |-> IntVal(ParseInt(cells[k]))]
    ELSE [k \in 1..Len(cells) |-> StrVal(cells[k])]

\* astype('str') of one value
astype_str(v) == IF v.t = "int" THEN StrVal(StrOfInt(v.n)) ELSE v

\* the kinds of rows the model draws catalogs from
Kinds == {"ok", "far", "norv", "noerr", "nopm", "skew", "dup"}

\* the numeric cells of row k of the file, by kind
RowObs(k, kind) ==
    [c \in {gaia_observables[i] : i \in 1..22} |->
        CASE c = "ra"        -> IF kind = "far" THEN 2 ELSE 0
          [] c = "dec"       -> 0
          [] c = "parallax"  -> 4 + k
          [] c = "pmra"      -> IF kind = "nopm" THEN NaN ELSE 1
          [] c = "pmdec"     -> 2
          [] c = "radial_velocity"
                             -> IF kind = "norv" THEN NaN ELSE 3
          [] c = "radial_velocity_error"
                             -> IF kind = "norv" THEN NaN ELSE 1
          [] c = "parallax_error"
                             -> IF kind = "noerr" THEN NaN ELSE 1
          [] c \in {"ra_error", "dec_error", "pmra_error", "pmdec_error"}
                             -> 1
          [] c = "ra_dec_corr"
                             -> IF kind \in {"skew", "dup"} THEN 1 ELSE 0
          [] c = "ra_parallax_corr"
                             -> IF kind = "skew" THEN 1 ELSE 0
          [] c = "dec_parallax_corr"
                             -> IF kind = "skew" THEN -1 ELSE 0
          [] OTHER           -> 0]

Row(k, idcell, kind) == [source_id |-> idcell, obs |-> RowObs(k, kind)]

\* the identifier the catalogs of the data specification give to row k
DefaultId(k) == <<"s", Digits[k + 1]>>

\* catalogs whose identifiers follow the row number
CatalogsOfKinds(kinds) ==
    UNION {{[k \in 1..n |-> Row(k, DefaultId(k), ks[k])] : ks \in [1..n -> kinds]}
            : n \in 0..MaxStars}

\* catalogs of rows of the given kinds with distinct identifier cells
CatalogsOfIds(idcells, kinds) ==
    UNION {{[k \in 1..n |-> Row(k, ids[k], ks[k])] :
                ids \in {f \in [1..n -> idcells] :
                            \A a, b \in 1..n : a # b => f[a] # f[b]},
                ks \in [1..n -> kinds]}
            : n \in 0..MaxStars}

(***************************************************************************)
(* Inference.load_data: reading and filtering.                             *)
(***************************************************************************)
SeqRange(s) == {s[k] : k \in 1..Len(s)}

\* pandas.read_csv(usecols=list_observables), reindex, ID as string
read_csv(file, dim) ==
    LET ids == InferColumn([k \in 1..Len(file) |-> file[k].source_id])
    IN  [k \in 1..Len(file) |->
            [source_id |-> astype_str(ids[k]),
             obs |-> [c \in SeqRange(names_obs(dim)) |-> file[k].obs[c]]]]

\* dropna when one present value of the subset is enough to keep a row
dropna_any(data, subset, thresh) ==
    SelectSeq(data, LAMBDA r : \E k \in 1..Len(subset) : r.obs[subset[k]] # NaN)

\* DataFrame.dropna(subset, thresh): keep the rows with at least thresh
\* values of the subset present
dropna(data, subset, thresh) ==
    SelectSeq(data, LAMBDA r :
        Cardinality({k \in 1..Len(subset) : r.obs[subset[k]] # NaN}) >= thresh)

\* data.index.values
index_values(data) == [i \in 1..Len(data) |-> data[i].source_id]

(***************************************************************************)
(* Inference.load_data: mean vector and block covariance.                  *)
(***************************************************************************)
\* numpy.triu_indices(D, k=1) in row-major order, without the radial
\* velocity column when D = 6
idx_tru(dim) ==
    LET keys == {r * dim + c : r \in 0..(dim - 1), c \in 0..(dim - 1)}
        upper == {x \in keys : (x \div dim) < (x % dim)
                                /\ (dim = 6 => (x % dim) # 5)}
        srt == SortedSeq(upper)
    IN  [k \in 1..Len(srt) |-> <<srt[k] \div dim, srt[k] % dim>>]

\* rho[idx_tru] = corr; rho = rho + rho.T + eye(D)
rho(datum, dim) ==
    LET tru == idx_tru(dim)
        nc  == names_corr(dim)
        up(a, b) == IF \E k \in 1..Len(tru) : tru[k] = <<a, b>>
                    THEN datum.obs[nc[CHOOSE k \in 1..Len(tru) : tru[k] = <<a, b>>]]
                    ELSE 0
    IN  Eval([q \in 1..(dim * dim) |->
            up(row(q, dim), col(q, dim)) + up(col(q, dim), row(q, dim))
            + (IF row(q, dim) = col(q, dim) THEN 1 ELSE 0)])

\* sigma = diag(sd) . rho . diag(sd); a NaN in sd fills its row and column
sigma(datum, dim) ==
    LET sd == [a \in 1..dim |-> datum.obs[names_sd(dim)[a]]]
        r  == rho(datum, dim)
    IN  Eval([q \in 1..(dim * dim) |->
            IF sd[row(q, dim) + 1] = NaN \/ sd[col(q, dim) + 1] = NaN THEN NaN
            ELSE sd[row(q, dim) + 1] * r[q] * sd[col(q, dim) + 1]])

\* mu = datum[names_mu] - zero_point
mu(datum, dim, zp) ==
    Eval([a \in 1..dim |-> Sub(datum.obs[names_mu(dim)[a]], zp[a])])

\* fill_mu when every star writes its block from the end of the vector
fill_mu_reversed(data, dim, zp) ==
    LET mus == [i \in 1..Len(data) |-> mu(data[i], dim, zp)]
    IN  Eval([q \in 1..(Len(data) * dim) |->
                at(mus[Len(data) - row(q, dim)], col(q, dim))])

\* the loop over data.iterrows(): star i fills ida = i*D .. i*D + D - 1
fill_mu(data, dim, zp) ==
    LET mus == [i \in 1..Len(data) |-> mu(data[i], dim, zp)]
    IN  Eval([q \in 1..(Len(data) * dim) |-> at(mus[row(q, dim) + 1], col(q, dim))])

fill_sg(data, dim) ==
    LET n == Len(data) * dim
        sigmas == [i \in 1..Len(data) |-> sigma(data[i], dim)]
    IN  Eval([q \in 1..(n * n) |->
            IF (row(q, n) \div dim) = (col(q, n) \div dim)
            THEN entry(sigmas[(row(q, n) \div dim) + 1], dim,
                       row(q, n) % dim, col(q, n) % dim)
            ELSE 0])

(***************************************************************************)
(* kalkayotl.Functions (not part of the sources at hand): angular          *)
(* separations and the empirical covariance functions, after the           *)
(* specification: symmetric N x N matrices that depend on the separation   *)
(* of each pair of stars only.                                             *)
(***************************************************************************)
Abs(x) == IF x < 0 THEN -x ELSE x

\* positions = data[["ra","dec"]]; theta is symmetric with a zero diagonal
AngularSeparation(data) ==
    LET n == Len(data)
    IN  Eval([q \in 1..(n * n) |->
            Abs(data[row(q, n) + 1].obs["ra"] - data[col(q, n) + 1].obs["ra"])
          + Abs(data[row(q, n) + 1].obs["dec"] - data[col(q, n) + 1].obs["dec"])])

CorrFuncs == {"Lindegren+2020", "Vasiliev+2019"}

\* the covariance of two parallaxes at separation t
KernelParallax(t, case) ==
    IF t = 0 THEN 2 ELSE IF case = "Lindegren+2020" THEN 1 ELSE 0

\* the covariance of two proper motions at separation t
KernelPM(t, case) ==
    IF case = "Lindegren+2020" THEN (IF t = 0 THEN 2 ELSE 1)
    ELSE (IF t = 0 THEN 1 ELSE 2)

CovarianceParallax(theta, case) ==
    Eval([q \in 1..Len(theta) |-> KernelParallax(theta[q], case)])
CovariancePM(theta, case) ==
    Eval([q \in 1..Len(theta) |-> KernelPM(theta[q], case)])

(***************************************************************************)
(* numpy.linalg on integer matrices (exact): fraction-free elimination.    *)
(***************************************************************************)
\* one step of Bareiss elimination on pivot k, prev the previous pivot
Eliminate(m, n, k, prev) ==
    Eval([q \in 1..(n * n) |->
        IF row(q, n) > k /\ col(q, n) > k
        THEN (entry(m, n, k, k) * m[q]
              - entry(m, n, row(q, n), k) * entry(m, n, k, col(q, n))) \div prev
        ELSE m[q]])

\* numpy.linalg.cholesky succeeds iff every leading principal minor of the
\* matrix is positive; pivot k of the elimination is the minor of order k+1
RECURSIVE MinorsPositive(_, _, _, _)
MinorsPositive(m, n, k, prev) ==
    IF k >= n THEN TRUE
    ELSE IF entry(m, n, k, k) <= 0 THEN FALSE
    ELSE MinorsPositive(Eliminate(m, n, k, prev), n, k + 1, entry(m, n, k, k))

IsSymmetric(m, n) ==
    \A i, j \in 0..(n - 1) : entry(m, n, i, j) = entry(m, n, j, i)

cholesky_ok(m, n) == MinorsPositive(m, n, 0, 1)

SwapRows(m, n, a, b) ==
    Eval([q \in 1..(n * n) |->
        IF row(q, n) = a THEN entry(m, n, b, col(q, n))
        ELSE IF row(q, n) = b THEN entry(m, n, a, col(q, n))
        ELSE m[q]])

\* numpy.linalg.inv raises LinAlgError iff the matrix is singular:
\* elimination with row exchanges finds a column without a pivot
RECURSIVE NonSingular(_, _, _, _)
NonSingular(m, n, k, prev) ==
    IF k >= n THEN TRUE
    ELSE LET rows == {r \in k..(n - 1) : entry(m, n, r, k) # 0}
         IN  IF rows = {} THEN FALSE
             ELSE LET r  == CHOOSE x \in rows : \A y \in rows : x <= y
                      sw == IF r = k THEN m ELSE SwapRows(m, n, k, r)
                  IN  NonSingular(Eliminate(sw, n, k, prev), n, k + 1,
                                  entry(sw, n, k, k))

inv_ok(m, n) == NonSingular(m, n, 0, 1)

\* the inverse of a matrix, kept as the matrix it inverts
inv(m, n) == [n |-> n, inverse_of |-> m]

(***************************************************************************)
(* Inference.load_data: cross-star terms and the observed subspace.        *)
(***************************************************************************)
\* add_block when the covariance is added along the whole rows of ida
add_block_rows(sg, n, dim, idx, cov) ==
    Eval([q \in 1..(n * n) |->
        IF (row(q, n) % dim) = idx
        THEN Add(sg[q], entry(cov, n \div dim, row(q, n) \div dim, col(q, n) \div dim))
        ELSE sg[q]])

\* sg_data[np.ix_(ida, ida)] += cov, ida[i] = i*D + idx
add_block(sg, n, dim, idx, cov) ==
    Eval([q \in 1..(n * n) |->
        IF (row(q, n) % dim) = idx /\ (col(q, n) % dim) = idx
        THEN Add(sg[q], entry(cov, n \div dim, row(q, n) \div dim, col(q, n) \div dim))
        ELSE sg[q]])

\* the test of positive definiteness when a failed factorisation is let pass
positive_definite_lenient(cov, n) == TRUE

\* try: np.linalg.cholesky(cov) except LinAlgError: sys.exit(...)
positive_definite(cov, n) == cholesky_ok(cov, n)

\* idx_obs = np.where(np.isfinite(mu_data))[0]
where_finite(mu_full) ==
    SortedSeq({p \in 0..(Len(mu_full) - 1) : isfinite(at(mu_full, p))})

\* sg_data[np.ix_(idx_obs, idx_obs)]
ix(sg, n, idx) ==
    LET k == Len(idx)
    IN  Eval([q \in 1..(k * k) |-> entry(sg, n, at(idx, row(q, k)), at(idx, col(q, k)))])

\* DataFrame(self.ID).to_csv(file_ids, index=False): one text per identifier
to_csv(ids) == [k \in 1..Len(ids) |-> ids[k].s]

\* self.n_sources,D = np.shape(data); if D != 2: the local D is the number of
\* columns of the table, one per observable of the dimension
incorrect_shape(dim) == Len(names_obs(dim)) # 2

\* RuntimeError("Data have incorrect shape!") is built as an expression
\* statement and never raised: the test changes nothing in load_data_result
\* everything load_data computes for a catalog file, and how it ends
load_data_result(file, case, dim, zp, indep, idxplx) ==
    LET data    == dropna(read_csv(file, dim), names_nan(dim), Len(names_nan(dim)))
        n       == Len(data) * dim
        mu0     == fill_mu(data, dim, zp)
        sg0     == fill_sg(data, dim)
        theta   == AngularSeparation(data)
        cov_plx == CovarianceParallax(theta, case)
        cov_pms == CovariancePM(theta, case)
        plx_ok  == indep \/ positive_definite(cov_plx, Len(data))
        pms_ok  == indep \/ dim # 6 \/ positive_definite(cov_pms, Len(data))
        sg1     == IF indep THEN sg0 ELSE add_block(sg0, n, dim, idxplx, cov_plx)
        sg2     == IF indep \/ dim # 6 THEN sg1
                   ELSE add_block(add_block(sg1, n, dim, idx_pma, cov_pms),
                                  n, dim, idx_pmd, cov_pms)
        idx_obs == where_finite(mu0)
        sg      == ix(sg2, n, idx_obs)
    IN  [ID        |-> index_values(data),
         n_sources |-> Len(data),
         outcome   |-> IF ~plx_ok THEN "exit_plx"
                       ELSE IF ~pms_ok THEN "exit_pms"
                       ELSE IF ~inv_ok(sg, Len(idx_obs)) THEN "raise_inv"
                       ELSE "ok",
         idx_data  |-> IF plx_ok /\ pms_ok THEN idx_obs ELSE EmptyArr,
         mu_data   |-> IF plx_ok /\ pms_ok
                       THEN [j \in 1..Len(idx_obs) |-> at(mu0, idx_obs[j])]
                       ELSE EmptyArr,
         sg_data   |-> IF plx_ok /\ pms_ok THEN [n |-> Len(idx_obs), a |-> sg]
                       ELSE [n |-> 0, a |-> EmptyArr]]

(***************************************************************************)
(* Inference.setup: the validation rules.  A parameter or hyper-parameter  *)
(* is None (the empty tuple) or a one-element tuple holding its value;     *)
(* weights are in percent.                                                 *)
(***************************************************************************)
None == <<>>
Some(v) == <<v>>

Priors == {"Gaussian", "EDSD", "Uniform", "GMM", "CGMM", "GUM", "King", "EFF"}

\* np.min(self.parameters["weights"])
\* the largest weight, in place of the smallest
np_max_weights(w) == CHOOSE x \in SeqRange(w) : \A y \in SeqRange(w) : x >= y

np_min_weights(w) == CHOOSE x \in SeqRange(w) : \A y \in SeqRange(w) : x <= y

\* the unit rules when any transformation is let pass
assert_transformation_lenient(dim, trans) == ""

\* assert self.transformation in ["pc","mas"]; 3D and 6D only work in pc
assert_transformation(dim, trans) ==
    IF trans \notin {"pc", "mas"} THEN "Transformation must be either pc or mas."
    ELSE IF dim \in {3, 6} /\ trans # "pc" THEN "3D model only works in pc."
    ELSE ""

\* location and scale when no hyper-parameter is asked for
assert_hyper_lenient(par, hyp) == ""

\* location and scale: a None parameter needs its hyper-parameter
assert_hyper(par, hyp) ==
    IF par.location = None /\ hyp.alpha = None THEN "hyper_alpha must be specified."
    ELSE IF par.scale = None /\ hyp.beta = None THEN "hyper_beta must be specified."
    ELSE ""

\* the rules of the prior families when no family is tied to a dimension
assert_prior_any_dimension(dim, pri, par, hyp, paramz) ==
    IF pri \in {"GMM", "CGMM", "GUM"} /\ par.weights = None /\ hyp.delta = None
         THEN "hyper_delta must be specified."
    ELSE IF pri \in {"GMM", "CGMM", "GUM"} /\ par.weights # None
            /\ ~(np_min_weights(par.weights[1]) > 5)
         THEN "weights must be greater than 5%."
    ELSE IF pri \in {"GMM", "CGMM", "GUM"} /\ paramz # "central"
         THEN "Only the central parametrization is valid for this configuration."
    ELSE IF pri = "King" /\ par.rt = None /\ hyp.gamma = None
         THEN "hyper_gamma must be specified."
    ELSE IF pri = "EFF" /\ par.gamma = None /\ hyp.gamma = None
         THEN "hyper_gamma must be specified."
    ELSE ""

\* the rules of the prior families
assert_prior(dim, pri, par, hyp, paramz) ==
    IF pri = "EDSD" /\ dim # 1 THEN "EDSD prior is only valid for 1D version."
    ELSE IF pri = "Uniform" /\ dim # 1 THEN "Uniform prior is only valid for 1D version."
    ELSE IF pri \in {"GMM", "CGMM", "GUM"} /\ par.weights = None /\ hyp.delta = None
         THEN "hyper_delta must be specified."
    ELSE IF pri \in {"GMM", "CGMM", "GUM"} /\ par.weights # None
            /\ ~(np_min_weights(par.weights[1]) > 5)
         THEN "weights must be greater than 5%."
    ELSE IF pri \in {"GMM", "CGMM", "GUM"} /\ paramz # "central"
         THEN "Only the central parametrization is valid for this configuration."
    ELSE IF pri \in {"CGMM", "GUM"} /\ dim \notin {3, 6}
         THEN "This prior is not valid for 1D version."
    ELSE IF pri = "King" /\ par.rt = None /\ hyp.gamma = None
         THEN "hyper_gamma must be specified."
    ELSE IF pri = "EFF" /\ par.gamma = None /\ hyp.gamma = None
         THEN "hyper_gamma must be specified."
    ELSE ""

\* the message of the first assertion of setup that fails, "" when all hold
setup_assert(dim, pri, par, hyp, trans, paramz) ==
    IF assert_transformation(dim, trans) # "" THEN assert_transformation(dim, trans)
    ELSE IF assert_hyper(par, hyp) # "" THEN assert_hyper(par, hyp)
    ELSE assert_prior(dim, pri, par, hyp, paramz)

(***************************************************************************)
(* Inference.run: the losses of the optimisation trials.                   *)
(***************************************************************************)
\* x < y on floats: no comparison with NaN holds
float_less(x, y) == x # NaN /\ y # NaN /\ x < y

\* np.min(approx.hist): NaN if the history has a NaN
np_min(h) ==
    IF \E k \in 1..Len(h) : h[k] = NaN THEN NaN
    ELSE CHOOSE x \in SeqRange(h) : \A y \in SeqRange(h) : x <= y

\* np.argmin(min_trials), 0-based: the first NaN, else the first minimum
np_argmin(a) ==
    LET nans == {k \in 1..Len(a) : a[k] = NaN}
        mins == {k \in 1..Len(a) : \A j \in 1..Len(a) : a[k] <= a[j]}
        pick(S) == CHOOSE k \in S : \A j \in S : k <= j
    IN  (IF nans # {} THEN pick(nans) ELSE pick(mins)) - 1

(***************************************************************************)
(* State.                                                                  *)
(***************************************************************************)
VARIABLES
    pc,               \* "start", "live", "exit" (sys.exit), "raised" (uncaught exception)
    called,           \* the methods called on the object so far
    has,              \* the attributes the object has (hasattr)
    msg,              \* the message of the sys.exit or of the failed assertion
    D, prior, parameters, hyper, transformation, parametrization,
    zero_point, indep_measures, idx_plx,
    ID, n_sources, idx_data, mu_data, sg_data, tau_data,
    Model,
    corr_func,        \* the corr_func argument of load_data
    file_data,        \* the catalog file
    file_ids,         \* dir_out/Identifiers.csv: <<>> when absent, else <<cells>>
    ID_written,       \* the identifiers load_data held when it wrote file_ids
    file_chains,      \* the dataset file: <<>> when absent, else <<[run, groups]>>
    file_h5,          \* dir_out/Samples.h5: <<>> when absent, else <<dataset names>>
    session,          \* "inference", or "analysis" for a later process
    run_pc,           \* where run is: "idle", "fit", "sample", "write", "done"
    optimize, opt_trials,
    trials, min_trials,
    best,             \* the index of the best trial, -1 before it is chosen
    step,             \* the trial the NUTS step was built from, -1 for none
    pm_data,          \* the groups of the InferenceData that run saves
    file_chains_before, \* file_chains as run found it
    ds_posterior, ds_prior,
    draws,            \* the values of the posterior group that ds_posterior holds
    df_groups,        \* the group of each star, <<>> while not classified
    n_classify,       \* how many times _classify has run in this process
    file_draws,       \* the values of the posterior group of the dataset file
    sample_idx,       \* the draws np.random.choice gave the last _classify
    file_stats,       \* dir_out/Sources_statistics.csv: <<>> when absent, else <<rows>>
    file_model,       \* dir_out/Model.pdf: <<>> when absent, else <<what was drawn>>
    msg_id,           \* the identifier named by the message of plot_chains
    diagnostics,      \* what convergence printed
    file_traces,      \* Traces.pdf
    file_evidence,    \* Evidence.csv
    stats_chains      \* the chains that save_statistics summarised, <<>> before it has

ctlVars  == <<pc, called, has, msg>>
cfgVars  == <<D, prior, parameters, hyper, transformation, parametrization,
              zero_point, indep_measures, idx_plx>>
dataVars == <<corr_func, ID, n_sources, idx_data, mu_data, sg_data, tau_data>>
fileVars == <<file_data, file_ids, ID_written, file_chains, file_h5>>
runVars  == <<run_pc, optimize, opt_trials, trials, min_trials, best, step,
              pm_data, file_chains_before>>
traceVars == <<ds_posterior, ds_prior, draws>>
anaVars  == <<df_groups, n_classify, sample_idx, msg_id, diagnostics, stats_chains>>
outVars  == <<file_draws, file_stats, file_model, file_traces, file_evidence>>

vars == <<ctlVars, cfgVars, dataVars, Model, fileVars, session, runVars, traceVars,
          anaVars, outVars>>

\* The values of a posterior group, for one chain and positions along one
\* axis: src[j][i] is the position of star i in draw j, loc[j][k] and
\* var[j][k] the location and the (isotropic) variance of component k in
\* draw j.  NoDraws is a group without draws.
NoDraws == [src |-> <<>>, loc |-> <<>>, var |-> <<>>]

NoParameters == [location |-> None, scale |-> None, weights |-> None,
                 rt |-> None, gamma |-> None]
NoHyper == [alpha |-> None, beta |-> None, gamma |-> None, delta |-> None,
            eta |-> None]
NoMatrix == [n |-> 0, a |-> EmptyArr]
NoModel == [dim |-> 0, prior |-> "", n_sources |-> 0, mu_data |-> EmptyArr,
            tau_data |-> inv(EmptyArr, 0)]

\* a process that has not constructed its Inference object yet
NewProcess ==
    /\ pc = "start"
    /\ called = {}
    /\ has = {}
    /\ msg = ""
    /\ D = 0 /\ prior = "" /\ parameters = NoParameters /\ hyper = NoHyper
    /\ transformation = "" /\ parametrization = ""
    /\ zero_point = EmptyArr /\ indep_measures = FALSE /\ idx_plx = 2
    /\ corr_func = ""
    /\ ID = EmptyArr /\ n_sources = 0 /\ idx_data = EmptyArr
    /\ mu_data = EmptyArr /\ sg_data = NoMatrix /\ tau_data = inv(EmptyArr, 0)
    /\ Model = NoModel
    /\ run_pc = "idle" /\ optimize = FALSE /\ opt_trials = 0
    /\ trials = <<>> /\ min_trials = <<>> /\ best = -1 /\ step = -1
    /\ pm_data = {} /\ file_chains_before = <<>>
    /\ ds_posterior = None /\ ds_prior = None
    /\ draws = NoDraws /\ df_groups = <<>> /\ n_classify = 0
    /\ stats_chains = <<>>
    /\ diagnostics = <<>>
    /\ msg_id = <<>>
    /\ sample_idx = <<>>

(***************************************************************************)
(* Inference.__init__                                                      *)
(***************************************************************************)
Construct(dimension, pri, par, hyp, trans, paramz, zp, indep) ==
    /\ pc = "start"
    /\ D' = dimension
    /\ prior' = pri
    /\ zero_point' = zp
    /\ parameters' = par
    /\ hyper' = hyp
    /\ transformation' = trans
    /\ indep_measures' = indep
    /\ parametrization' = paramz
    /\ idx_plx' = init_idx_plx(dimension)
    /\ IF dimension \in ValidD
       THEN /\ pc' = "live"
            /\ msg' = msg
       ELSE /\ pc' = "exit"
            /\ msg' = "Dimension not valid!"
    /\ UNCHANGED <<called, has, dataVars, Model, fileVars, session, runVars, traceVars>>
    /\ UNCHANGED <<anaVars, outVars>>

(***************************************************************************)
(* Inference.load_data                                                     *)
(***************************************************************************)
LoadData(case) ==
    /\ pc = "live"
    /\ run_pc \in {"idle", "done"}
    /\ "load_data" \notin called
    /\ called' = called \cup {"load_data"}
    /\ corr_func' = case
    /\ \E r \in {load_data_result(file_data, case, D, zero_point,
                                   indep_measures, idx_plx)} :
           /\ ID' = r.ID
           /\ n_sources' = r.n_sources
           /\ file_ids' = <<to_csv(r.ID)>>
           /\ ID_written' = r.ID
           /\ IF r.outcome \in {"exit_plx", "exit_pms"}
              THEN /\ pc' = "exit"
                   /\ msg' = IF r.outcome = "exit_plx"
                             THEN "Covariance matrix of parallax correlations is not positive definite!"
                             ELSE "Covariance matrix of proper motions correlations is not positive definite!"
                   /\ has' = has \cup {"ID", "n_sources"}
                   /\ UNCHANGED <<idx_data, mu_data, sg_data, tau_data>>
              ELSE /\ idx_data' = r.idx_data
                   /\ mu_data' = r.mu_data
                   /\ sg_data' = r.sg_data
                   /\ IF r.outcome = "raise_inv"
                      THEN /\ pc' = "raised"
                           /\ msg' = "LinAlgError: Singular matrix"
                           /\ has' = has \cup {"ID", "n_sources", "idx_data",
                                               "mu_data", "sg_data"}
                           /\ UNCHANGED tau_data
                      ELSE /\ pc' = pc
                           /\ msg' = msg
                           /\ has' = has \cup {"ID", "n_sources", "idx_data",
                                               "mu_data", "sg_data", "tau_data"}
                           /\ tau_data' = inv(r.sg_data.a, r.sg_data.n)
    /\ UNCHANGED <<cfgVars, Model, file_data, file_chains, file_h5, session,
                   runVars, traceVars>>
    /\ UNCHANGED <<anaVars, outVars>>

(***************************************************************************)
(* Inference.setup                                                         *)
(***************************************************************************)
Setup ==
    /\ pc = "live"
    /\ run_pc \in {"idle", "done"}
    /\ "setup" \notin called
    /\ called' = called \cup {"setup"}
    /\ \E m \in {setup_assert(D, prior, parameters, hyper, transformation,
                              parametrization)} :
          IF m # ""
          THEN \* AssertionError
               /\ pc' = "raised"
               /\ msg' = m
               /\ UNCHANGED <<has, Model>>
          ELSE IF D \notin ValidD
          THEN /\ pc' = "exit"
               /\ msg' = "Dimension not valid!"
               /\ UNCHANGED <<has, Model>>
          ELSE IF ~({"n_sources", "mu_data", "tau_data"} \subseteq has)
          THEN \* AttributeError: load_data has not set the data
               /\ pc' = "raised"
               /\ msg' = "AttributeError"
               /\ UNCHANGED <<has, Model>>
          ELSE /\ Model' = [dim |-> D, prior |-> prior, n_sources |-> n_sources,
                            mu_data |-> mu_data, tau_data |-> tau_data]
               /\ has' = has \cup {"Model"}
               /\ UNCHANGED <<pc, msg>>
    /\ UNCHANGED <<cfgVars, dataVars, fileVars, session, runVars, traceVars>>
    /\ UNCHANGED <<anaVars, outVars>>

(***************************************************************************)
(* Inference.run, in steps: the trials of pm.fit, the choice of the best   *)
(* one, the sampling, and the groups az.to_netcdf writes one by one.       *)
(***************************************************************************)
\* the run that a session performs tags the dataset it writes
ThisRun == 1
PreviousRun == 0

\* run(...) is entered: self.Model is needed by pm.fit or by the with block.
\* The samples are drawn in the inference session; a later session only
\* reads them.
RunBegin(opt, ntrials) ==
    /\ pc = "live"
    /\ session = "inference"
    /\ "run" \notin called
    /\ called' = called \cup {"run"}
    /\ optimize' = opt
    /\ opt_trials' = IF opt THEN ntrials ELSE 0
    /\ file_chains_before' = file_chains
    /\ IF "Model" \notin has /\ ~(opt /\ ntrials = 0)
       THEN /\ pc' = "raised"
            /\ msg' = "AttributeError"
            /\ UNCHANGED run_pc
       ELSE /\ run_pc' = IF opt THEN "fit" ELSE "sample"
            /\ UNCHANGED <<pc, msg>>
    /\ UNCHANGED <<has, cfgVars, dataVars, Model, fileVars, session,
                   trials, min_trials, best, step, pm_data, traceVars>>
    /\ UNCHANGED <<anaVars, outVars>>

\* the values a loss takes
Losses == {1, 2, 3, NaN, Inf}

\* the loss histories pm.fit may return
Hists == UNION {[1..n -> Losses] : n \in 1..MaxHist}

\* one pass of the loop: pm.fit returns an approximation or raises
RunTrial(raises, hist) ==
    /\ pc = "live"
    /\ run_pc = "fit"
    /\ Len(trials) < opt_trials
    /\ IF raises
       THEN \* FloatingPointError leaves run
            /\ pc' = "raised"
            /\ msg' = "FloatingPointError"
            /\ UNCHANGED <<trials, min_trials>>
       ELSE /\ trials' = Append(trials, hist)
            /\ min_trials' = Append(min_trials, np_min(hist))
            /\ UNCHANGED <<pc, msg>>
    /\ UNCHANGED <<called, has, cfgVars, dataVars, Model, fileVars, session,
                   run_pc, optimize, opt_trials, best, step, pm_data,
                   file_chains_before, traceVars>>
    /\ UNCHANGED <<anaVars, outVars>>

\* best = trials[np.argmin(min_trials)]; the NUTS step is built from it
RunBest ==
    /\ pc = "live"
    /\ run_pc = "fit"
    /\ Len(trials) = opt_trials
    /\ IF trials = <<>>
       THEN \* ValueError: attempt to get argmin of an empty sequence
            /\ pc' = "raised"
            /\ msg' = "ValueError"
            /\ UNCHANGED <<best, step, run_pc>>
       ELSE /\ best' = np_argmin(min_trials)
            /\ step' = np_argmin(min_trials)
            /\ run_pc' = "sample"
            /\ UNCHANGED <<pc, msg>>
    /\ UNCHANGED <<called, has, cfgVars, dataVars, Model, fileVars, session,
                   optimize, opt_trials, trials, min_trials, pm_data,
                   file_chains_before, traceVars>>
    /\ UNCHANGED <<anaVars, outVars>>

\* prior predictive, pm.sample, posterior predictive, az.from_pymc3
RunSample(prior_predictive, posterior_predictive) ==
    /\ pc = "live"
    /\ run_pc = "sample"
    /\ pm_data' = {"posterior"}
                  \cup (IF prior_predictive THEN {"prior"} ELSE {})
                  \cup (IF posterior_predictive THEN {"posterior_predictive"} ELSE {})
    /\ run_pc' = "write"
    /\ UNCHANGED <<ctlVars, cfgVars, dataVars, Model, fileVars, session,
                   optimize, opt_trials, trials, min_trials, best, step,
                   file_chains_before, traceVars>>
    /\ UNCHANGED <<anaVars, outVars>>

\* the groups of this run that file_chains holds
Written == IF file_chains # <<>> /\ file_chains[1].run = ThisRun
           THEN file_chains[1].groups ELSE {}

\* az.to_netcdf(pm_data, file_chains): the first group truncates the file,
\* the others are appended to it; the order of the groups is the library's.
\* A file records the run that wrote it, the groups it holds, and the
\* groups of the dataset it was written from.
WriteGroup(g) ==
    /\ pc = "live"
    /\ run_pc = "write"
    /\ g \in pm_data \ Written
    /\ file_chains' = <<[run |-> ThisRun, groups |-> Written \cup {g},
                         dataset |-> pm_data]>>
    /\ run_pc' = IF Written \cup {g} = pm_data THEN "done" ELSE "write"
    /\ UNCHANGED <<ctlVars, cfgVars, dataVars, Model, file_data, file_ids,
                   ID_written, file_h5, session, optimize, opt_trials, trials,
                   min_trials, best, step, pm_data, file_chains_before, traceVars>>
    /\ UNCHANGED <<anaVars, outVars>>

\* the process is interrupted or killed while run is under way
Abort ==
    /\ pc = "live"
    /\ run_pc \in {"fit", "sample", "write"}
    /\ pc' = "aborted"
    /\ UNCHANGED <<called, has, msg, cfgVars, dataVars, Model, fileVars, session,
                   runVars, traceVars>>
    /\ UNCHANGED <<anaVars, outVars>>

(***************************************************************************)
(* A later process over the same output directory, and load_trace.         *)
(***************************************************************************)
NewSession ==
    /\ session = "inference"
    /\ pc # "start"
    /\ session' = "analysis"
    /\ pc' = "start" /\ called' = {} /\ has' = {} /\ msg' = ""
    /\ D' = 0 /\ prior' = "" /\ parameters' = NoParameters /\ hyper' = NoHyper
    /\ transformation' = "" /\ parametrization' = ""
    /\ zero_point' = EmptyArr /\ indep_measures' = FALSE /\ idx_plx' = 2
    /\ corr_func' = ""
    /\ ID' = EmptyArr /\ n_sources' = 0 /\ idx_data' = EmptyArr
    /\ mu_data' = EmptyArr /\ sg_data' = NoMatrix /\ tau_data' = inv(EmptyArr, 0)
    /\ Model' = NoModel
    /\ run_pc' = "idle" /\ optimize' = FALSE /\ opt_trials' = 0
    /\ trials' = <<>> /\ min_trials' = <<>> /\ best' = -1 /\ step' = -1
    /\ pm_data' = {} /\ file_chains_before' = <<>>
    /\ ds_posterior' = None /\ ds_prior' = None
    /\ draws' = NoDraws /\ df_groups' = <<>> /\ n_classify' = 0
    /\ stats_chains' = <<>>
    /\ diagnostics' = <<>>
    /\ msg_id' = <<>>
    /\ sample_idx' = <<>>
    /\ UNCHANGED <<fileVars, outVars>>

\* the lists of variable names that load_trace sets from the posterior group
variable_lists ==
    {"source_variables", "cluster_variables", "plots_variables", "stats_variables",
     "loc_variables", "std_variables", "cor_variables"}

\* pn.read_csv(self.file_ids).to_numpy().flatten()
read_ids(cells) == InferColumn(cells)

LoadTrace ==
    /\ pc = "live"
    /\ run_pc \in {"idle", "done"}
    /\ called' = called \cup {"load_trace"}
    /\ IF "ID" \notin has /\ file_ids = <<>>
       THEN \* FileNotFoundError
            /\ pc' = "raised"
            /\ msg' = "FileNotFoundError"
            /\ UNCHANGED <<has, ID, traceVars>>
       ELSE /\ ID' = IF "ID" \in has THEN ID ELSE read_ids(file_ids[1])
            /\ IF file_chains = <<>> \/ "posterior" \notin file_chains[1].groups
               THEN \* no file, or no posterior group in it
                    /\ pc' \in {"exit", "raised"}
                    /\ msg' = "There is no posterior group"
                    /\ has' = has \cup {"ID"}
                    /\ UNCHANGED traceVars
               ELSE /\ ds_posterior' = Some(file_chains[1].run)
                    /\ draws' = file_draws
                    /\ ds_prior' = IF "prior" \in file_chains[1].groups
                                   THEN Some(file_chains[1].run) ELSE None
                    /\ has' = has \cup {"ID", "ds_posterior", "ds_prior"}
                                   \cup variable_lists
                    /\ UNCHANGED <<pc, msg>>
    /\ UNCHANGED <<cfgVars, corr_func, n_sources, idx_data, mu_data, sg_data,
                   tau_data, Model, fileVars, session, runVars>>
    /\ UNCHANGED <<anaVars, outVars>>

\* save_samples: the identifiers are read from file_ids as strings and name
\* the datasets of Samples.h5
SaveSamples ==
    /\ pc = "live"
    /\ run_pc \in {"idle", "done"}
    /\ "save_samples" \notin called
    /\ called' = called \cup {"save_samples"}
    /\ IF file_ids = <<>>
       THEN /\ pc' = "raised"
            /\ msg' = "FileNotFoundError"
            /\ UNCHANGED file_h5
       ELSE IF "ds_posterior" \notin has
       THEN /\ pc' = "raised"
            /\ msg' = "AttributeError"
            /\ UNCHANGED file_h5
       ELSE /\ file_h5' = <<[k \in 1..Len(file_ids[1]) |->
                                astype_str(read_ids(file_ids[1])[k])]>>
            /\ UNCHANGED <<pc, msg>>
    /\ UNCHANGED <<has, cfgVars, dataVars, Model, file_data, file_ids, ID_written,
                   file_chains, session, runVars, traceVars>>
    /\ UNCHANGED <<anaVars, outVars>>

(***************************************************************************)
(* Inference._classify and Inference._extract.                             *)
(***************************************************************************)
\* self.ds_posterior.sizes["draw"]
n_draws(dr) == Len(dr.src)

\* 100 ln v for the variances of the model
log100(v) == IF v = 4 THEN 139 ELSE 0

\* st.multivariate_normal(mean=loc, cov=cov).logpdf(dt) in dimension dim,
\* times 200 and up to its constant
logpdf(dim, dt, loc, cov) ==
    0 - ((100 * (dt - loc) * (dt - loc)) \div cov) - dim * log100(cov)

\* np.argmax, 0-based: the first maximum
np_argmax(a) ==
    (CHOOSE k \in 1..Len(a) :
        /\ \A j \in 1..Len(a) : a[k] >= a[j]
        /\ \A j \in 1..(k - 1) : a[j] < a[k]) - 1

\* st.mode: the most frequent value, the smallest of them when tied
st_mode(a) ==
    LET count(v) == Cardinality({j \in 1..Len(a) : a[j] = v})
    IN  CHOOSE v \in SeqRange(a) :
            \A w \in SeqRange(a) : count(v) > count(w) \/ (count(v) = count(w) /\ v <= w)

\* np.random.choice(np.arange(n), replace=False, size=size): every sequence
\* of size distinct draws
choice(n, size) ==
    {q \in [1..size -> 0..(n - 1)] : \A a, b \in 1..size : a # b => q[a] # q[b]}

\* _extract(group="posterior", n_samples, chain): the locations and the
\* covariances of the components at the draws idx of the chain
extract(dr, idx) ==
    [j \in 1..Len(idx) |-> [loc |-> dr.loc[idx[j] + 1], var |-> dr.var[idx[j] + 1]]]

\* log_lk[i,j,:].argmax(): zip pairs row j of the star's flattened positions
\* with sample j of the extracted parameters
vote(dim, dr, idx, i, j) ==
    LET pos == extract(dr, idx)[j]
    IN  np_argmax([k \in 1..Len(pos.loc) |->
                      logpdf(dim, dr.src[j][i], pos.loc[k], pos.var[k])])

\* _classify: if self.prior in ["GMM","CGMM"], the stars are classified by
\* vote
classified_by_vote(pri) == pri \in {"GMM", "CGMM"}

\* the groups that _classify stores in df_groups
classify(pri, dim, dr, idx, ids) ==
    IF classified_by_vote(pri)
    THEN [i \in 1..Len(ids) |-> st_mode([j \in 1..Len(idx) |-> vote(dim, dr, idx, i, j)])]
    ELSE [i \in 1..Len(ids) |-> 0]

Min(a, b) == IF a <= b THEN a ELSE b

\* self.suffixes
suffixes == <<"_X", "_Y", "_Z", "_U", "_V", "_W">>

\* the statistics of az.summary with stat_funcs: a column is a statistic
\* and its suffix
stat_names == {"mean", "sd", "median", "mode"}

\* the columns of the table of sources: one per statistic for D = 1, one
\* per statistic and coordinate once the parameters are put into columns
source_columns(dim) ==
    IF dim \in {3, 6}
    THEN {<<st, suffixes[c]>> : st \in stat_names, c \in 1..dim}
    ELSE {<<st, "">> : st \in stat_names}

\* the columns that the distance of a statistic is computed from
distance_columns(st) == {<<st, "_X">>, <<st, "_Y">>, <<st, "_Z">>}

\* df_source[["mode_X","mode_Y","mode_Z"]] and the like: KeyError when a
\* column is missing
distance_ok(dim) ==
    \A st \in {"mode", "mean", "median"} : distance_columns(st) \subseteq source_columns(dim)

\* the rows of Sources_statistics.csv: the identifier, the group, the names
\* of the columns, and the columns each distance is the norm of
source_rows(dim, ids, groups) ==
    [i \in 1..Len(ids) |->
        [id |-> ids[i], group |-> groups[i],
         columns |-> source_columns(dim)
                     \cup {<<st, "_distance">> : st \in {"mode", "mean", "median"}},
         distances |-> [st \in {"mode", "mean", "median"} |-> distance_columns(st)]]]

\* the chains of the dataset, and the default of chain_gmm
AllChains == {0, 1}
chain_gmm == {0}

\* save_statistics: for GMM and CGMM az.utils.get_coords keeps the chains
\* chain_gmm, any other prior is summarised over all chains
statistics_chains(pri, chains) ==
    IF pri \in {"GMM", "CGMM"} THEN chains ELSE AllChains

\* _classify when no assignment is stored
classify_always(stored) == FALSE

\* hasattr(self, "df_groups")
classify_stored(stored) == "df_groups" \in stored

(***************************************************************************)
(* Inference.save_statistics and Inference.plot_model.                     *)
(***************************************************************************)
SaveStatistics ==
    /\ pc = "live"
    /\ run_pc \in {"idle", "done"}
    /\ classify_stored(has) \/ n_classify < MaxClassify
    /\ called' = called \cup {"save_statistics"}
    /\ IF ~({"ds_posterior", "ID"} \subseteq has)
       THEN \* AttributeError: load_trace has not set the posterior
            /\ pc' = "raised"
            /\ msg' = "AttributeError"
            /\ UNCHANGED <<has, df_groups, n_classify, sample_idx, stats_chains,
                           file_stats>>
       ELSE \E idx \in choice(n_draws(draws), Min(100, n_draws(draws))) :
            \E groups \in {IF classify_stored(has) THEN df_groups
                            ELSE classify(prior, D, draws, idx, ID)} :
            /\ df_groups' = groups
            /\ has' = has \cup {"df_groups"}
            /\ n_classify' = IF classify_stored(has) THEN n_classify ELSE n_classify + 1
            /\ sample_idx' = IF ~classify_stored(has) /\ classified_by_vote(prior)
                             THEN idx ELSE sample_idx
            /\ IF distance_ok(D)
               THEN /\ file_stats' = <<source_rows(D, ID, groups)>>
                    /\ stats_chains' = <<statistics_chains(prior, chain_gmm)>>
                    /\ UNCHANGED <<pc, msg>>
               ELSE /\ pc' = "raised"
                    /\ msg' = "KeyError"
                    /\ UNCHANGED <<file_stats, stats_chains>>
    /\ UNCHANGED <<cfgVars, dataVars, Model, fileVars, session, runVars, traceVars,
                   msg_id, diagnostics, file_draws, file_model, file_traces,
                   file_evidence>>

\* what plot_model would draw if it read the prior group unconditionally
model_figure_with_prior(pri) ==
    [prior_extracted |-> TRUE,
     prior_ellipses  |-> TRUE,
     legend          |-> <<"Prior", "Posterior", "Data">>]

\* what plot_model draws: the prior is read only if ds_prior is not None
model_figure(pri) ==
    [prior_extracted |-> pri # None,
     prior_ellipses  |-> pri # None,
     legend          |-> IF pri # None THEN <<"Prior", "Posterior", "Data">>
                         ELSE <<"Posterior", "Data">>]

PlotModel(n_samples) ==
    /\ pc = "live"
    /\ run_pc \in {"idle", "done"}
    /\ classify_stored(has) \/ n_classify < MaxClassify
    /\ called' = called \cup {"plot_model"}
    /\ IF D \notin {3, 6}
       THEN /\ pc' = "raised"
            /\ msg' = "Only valid for 3D and 6D models"
            /\ UNCHANGED <<has, df_groups, n_classify, sample_idx, file_model>>
       ELSE IF ~({"ds_posterior", "ID"} \subseteq has)
       THEN /\ pc' = "raised"
            /\ msg' = "AttributeError"
            /\ UNCHANGED <<has, df_groups, n_classify, sample_idx, file_model>>
       ELSE IF ~(n_samples <= n_draws(draws))
       THEN /\ pc' = "raised"
            /\ msg' = "The required n_samples is larger than those in the posterior."
            /\ UNCHANGED <<has, df_groups, n_classify, sample_idx, file_model>>
       ELSE \E idx \in choice(n_draws(draws), n_samples) :
            /\ df_groups' = IF classify_stored(has) THEN df_groups
                            ELSE classify(prior, D, draws, idx, ID)
            /\ has' = has \cup {"df_groups"}
            /\ n_classify' = IF classify_stored(has) THEN n_classify ELSE n_classify + 1
            /\ sample_idx' = IF ~classify_stored(has) /\ classified_by_vote(prior)
                             THEN idx ELSE sample_idx
            /\ file_model' = <<model_figure(ds_prior)>>
            /\ UNCHANGED <<pc, msg>>
    /\ UNCHANGED <<cfgVars, dataVars, Model, fileVars, session, runVars, traceVars,
                   msg_id, diagnostics, stats_chains, file_draws, file_stats,
                   file_traces, file_evidence>>

(***************************************************************************)
(* Inference.convergence, Inference.plot_chains and Inference.evidence.    *)
(***************************************************************************)
\* az.rhat and az.ess of the posterior group, one line per variable: the
\* number of draws stands for the values printed
convergence_report(dr) == [rhat |-> n_draws(dr), ess |-> n_draws(dr)]

Convergence ==
    /\ pc = "live"
    /\ run_pc \in {"idle", "done"}
    /\ "convergence" \notin called
    /\ called' = called \cup {"convergence"}
    /\ IF "ds_posterior" \notin has
       THEN /\ pc' = "raised"
            /\ msg' = "AttributeError"
            /\ UNCHANGED diagnostics
       ELSE /\ diagnostics' = <<convergence_report(draws)>>
            /\ UNCHANGED <<pc, msg>>
    /\ UNCHANGED <<has, cfgVars, dataVars, Model, fileVars, session, runVars, traceVars,
                   df_groups, n_classify, sample_idx, msg_id, stats_chains,
                   outVars>>

\* np.isin(self.ID, ID): element-wise equality; a number and a text are
\* never equal
np_isin(ids, req) ==
    [k \in 1..Len(ids) |->
        /\ ids[k].t = req.t
        /\ IF req.t = "int" THEN ids[k].n = req.n ELSE ids[k].s = req.s]

\* np.where(id_in_IDs)[0]
np_where(mask) == {k - 1 : k \in {q \in 1..Len(mask) : mask[q]}}

\* plot_chains(IDs=[req])
PlotChains(req) ==
    /\ pc = "live"
    /\ run_pc \in {"idle", "done"}
    /\ "plot_chains" \notin called
    /\ called' = called \cup {"plot_chains"}
    /\ IF "ID" \notin has
       THEN /\ pc' = "raised"
            /\ msg' = "AttributeError"
            /\ UNCHANGED <<msg_id, file_traces>>
       ELSE IF np_where(np_isin(ID, req)) = {}
       THEN /\ pc' = "exit"
            /\ msg' = "is not valid"
            /\ msg_id' = <<req>>
            /\ UNCHANGED file_traces
       ELSE IF "ds_posterior" \notin has
       THEN /\ pc' = "raised"
            /\ msg' = "AttributeError"
            /\ UNCHANGED <<msg_id, file_traces>>
       ELSE /\ file_traces' = <<[request |-> req, idx |-> np_where(np_isin(ID, req))]>>
            /\ UNCHANGED <<pc, msg, msg_id>>
    /\ UNCHANGED <<has, cfgVars, dataVars, Model, fileVars, session, runVars, traceVars,
                   df_groups, n_classify, sample_idx, diagnostics, stats_chains,
                   file_draws, file_stats, file_model, file_evidence>>

\* the attributes that __init__ sets, among those that the methods read
init_attributes ==
    {"D", "prior", "zero_point", "parameters", "hyper", "transformation",
     "indep_measures", "parametrization", "file_ids", "suffixes", "id_name"}

\* the attributes that evidence reads to build Evidence1D, in order
evidence_reads ==
    <<"mu_data", "sg_data", "prior", "parameters", "hyper_alpha",
      "hyper_beta", "hyper_gamma", "hyper_delta", "transformation">>

\* Evidence1D(...).run(...) and parameters_statistics: the rows of
\* Evidence.csv, the parameter summaries and then logZ
Evidence1D(mean, cov, pri, par, hyp, logZ, logZerr) ==
    [estimator |-> [mu_data |-> mean, sg_data |-> cov, prior |-> pri,
                    parameters |-> par, hyper |-> hyp],
     rows |-> <<[name |-> "parameters"],
                [name |-> "logZ", lower |-> logZ - logZerr, median |-> logZ,
                 upper |-> logZ + logZerr]>>]

Evidence(logZ, logZerr) ==
    /\ pc = "live"
    /\ run_pc \in {"idle", "done"}
    /\ "evidence" \notin called
    /\ called' = called \cup {"evidence"}
    /\ IF D # 1
       THEN /\ pc' = "raised"
            /\ msg' = "Evidence is only implemented for dimension 1."
            /\ UNCHANGED file_evidence
       ELSE IF \E k \in 1..Len(evidence_reads) :
                    evidence_reads[k] \notin has \cup init_attributes
       THEN /\ pc' = "raised"
            /\ msg' = "AttributeError"
            /\ UNCHANGED file_evidence
       ELSE /\ file_evidence' = <<Evidence1D(mu_data, sg_data, prior, parameters,
                                             hyper, logZ, logZerr).rows>>
            /\ UNCHANGED <<pc, msg>>
    /\ UNCHANGED <<has, cfgVars, dataVars, Model, fileVars, session, runVars, traceVars,
                   anaVars, file_draws, file_stats, file_model, file_traces>>

(***************************************************************************)
(* The data specification: one object, constructed, loaded and set up,     *)
(* over all catalogs of the model.                                         *)
(***************************************************************************)
ZeroPoints(dim) == {[a \in 1..dim |-> 0], [a \in 1..dim |-> a]}

FixedParameters == [location |-> Some(0), scale |-> Some(1), weights |-> None,
                    rt |-> None, gamma |-> None]

Dimensions == {1, 2, 3, 6}

\* an output directory that holds nothing yet
NoFiles ==
    /\ file_ids = <<>>
    /\ ID_written = EmptyArr
    /\ file_chains = <<>>
    /\ file_h5 = <<>>
    /\ file_draws = NoDraws
    /\ file_evidence = <<>>
    /\ file_traces = <<>>
    /\ file_model = <<>>
    /\ file_stats = <<>>

InitData ==
    /\ NewProcess
    /\ file_data \in CatalogsOfKinds(Kinds)
    /\ NoFiles
    /\ session = "inference"

ConstructData ==
    \E dimension \in Dimensions, indep \in BOOLEAN :
        \E zp \in ZeroPoints(dimension) :
            Construct(dimension, "Gaussian", FixedParameters, NoHyper, "pc",
                      "central", zp, indep)

LoadDataAny == \E case \in CorrFuncs : LoadData(case)

NextData == ConstructData \/ LoadDataAny \/ Setup

SpecData == InitData /\ [][NextData]_vars

(***************************************************************************)
(* Properties of load_data, stated on the catalog file itself.             *)
(***************************************************************************)
AllColumns == {gaia_observables[i] : i \in 1..22}

\* the fields a record must have, by dimensionality
RequiredColumns(dim) ==
    CASE dim = 1 -> {"ra", "dec", "parallax", "parallax_error"}
      [] dim = 3 -> {"ra", "dec", "parallax", "ra_error", "dec_error",
                     "parallax_error", "ra_dec_corr", "ra_parallax_corr",
                     "dec_parallax_corr"}
      [] dim = 6 -> AllColumns \ {"radial_velocity", "radial_velocity_error"}
      [] OTHER   -> {}

\* the measured quantities, by dimensionality
MeasuredColumns(dim) ==
    CASE dim = 1 -> <<"parallax">>
      [] dim = 3 -> <<"ra", "dec", "parallax">>
      [] dim = 6 -> <<"ra", "dec", "parallax", "pmra", "pmdec", "radial_velocity">>
      [] OTHER   -> <<>>

Complete(r, dim) == \A c \in RequiredColumns(dim) : r.obs[c] # NaN

\* the records of the catalog file that have every required field
Survivors == SelectSeq(file_data, LAMBDA r : Complete(r, D))

MissingRV(r) == r.obs["radial_velocity"] = NaN

\* the coordinates of star i (0-based) that idx_data keeps
KeptCoordinates(i) == {at(idx_data, j) % D : j \in {x \in 0..(Len(idx_data) - 1) :
                                                    at(idx_data, x) \div D = i}}

Loaded == "tau_data" \in has

\* C1: with dimension 6 a record that lacks only its radial velocity is
\* kept; it contributes its 5 other coordinates to mu_data, and tau_data
\* has side 6*N minus the number of stars without radial velocity, with no
\* row or column for a missing coordinate.
C1_MissingRadialVelocityKept ==
    (D = 6 /\ "ID" \in has) =>
        /\ Len(ID) = Len(Survivors)
        /\ \A i \in 1..Len(Survivors) :
              /\ ID[i].s = Survivors[i].source_id
              /\ (Loaded /\ MissingRV(Survivors[i])) =>
                    KeptCoordinates(i - 1) = {0, 1, 2, 3, 4}
        /\ Loaded =>
              LET missing == Cardinality({i \in 1..Len(Survivors) :
                                            MissingRV(Survivors[i])})
              IN  /\ Len(mu_data) = 6 * Len(Survivors) - missing
                  /\ tau_data.n = 6 * Len(Survivors) - missing
                  /\ Len(tau_data.inverse_of) = tau_data.n * tau_data.n
                  /\ \A j \in 1..Len(mu_data) : mu_data[j] # NaN

C1_Witness ==
    /\ D = 6 /\ Loaded
    /\ Len(file_data) = 2 /\ Len(ID) = 2
    /\ MissingRV(file_data[1]) /\ ~MissingRV(file_data[2])
    /\ tau_data.n = 11

\* the cross-star covariance blocks of the surviving records
ThetaOfSurvivors == AngularSeparation(Survivors)
ParallaxBlockBad ==
    ~cholesky_ok(CovarianceParallax(ThetaOfSurvivors, corr_func), Len(Survivors))
PMBlockBad ==
    D = 6 /\ ~cholesky_ok(CovariancePM(ThetaOfSurvivors, corr_func), Len(Survivors))

NamesParallax(m) ==
    m = "Covariance matrix of parallax correlations is not positive definite!"
NamesPM(m) ==
    m = "Covariance matrix of proper motions correlations is not positive definite!"

\* C2: with indep_measures false, a parallax block (any D) or a proper
\* motion block (D = 6) that is not positive definite ends load_data in
\* sys.exit with the message of the block that failed; mu_data, sg_data and
\* tau_data are not assigned and no model is ever set up.
C2_BadBlockIsFatal ==
    ("load_data" \in called /\ ~indep_measures /\ (ParallaxBlockBad \/ PMBlockBad)) =>
        /\ pc = "exit"
        /\ IF ParallaxBlockBad THEN NamesParallax(msg) ELSE NamesPM(msg)
        /\ has \cap {"idx_data", "mu_data", "sg_data", "tau_data", "Model"} = {}
        /\ sg_data = NoMatrix

C2_Witness ==
    /\ "load_data" \in called /\ ~indep_measures
    /\ ~ParallaxBlockBad /\ PMBlockBad
    /\ pc = "exit" /\ NamesPM(msg)

\* C3 (as claimed): whenever load_data completes, sg_data is symmetric and
\* positive definite.
C3_CovariancePositiveDefinite ==
    Loaded => /\ IsSymmetric(sg_data.a, sg_data.n)
              /\ cholesky_ok(sg_data.a, sg_data.n)

\* the star and the coordinate of row p (0-based) of sg_data
StarOf(p) == at(idx_data, p) \div D
CoordOf(p) == at(idx_data, p) % D

ParallaxCoord == IF D = 1 THEN 0 ELSE 2

\* C4: an entry of sg_data that couples two different stars is nonzero only
\* if indep_measures is false and it couples the parallaxes, or (D = 6) the
\* pmra's or the pmdec's, of the two stars; with indep_measures true no
\* positive-definiteness check ends the load.
C4_CrossStarCoupling ==
    /\ "sg_data" \in has =>
          \A p, q \in 0..(sg_data.n - 1) :
              (StarOf(p) # StarOf(q) /\ entry(sg_data.a, sg_data.n, p, q) # 0) =>
                  /\ ~indep_measures
                  /\ CoordOf(p) = CoordOf(q)
                  /\ \/ CoordOf(p) = ParallaxCoord
                     \/ D = 6 /\ CoordOf(p) \in {3, 4}
    /\ ("load_data" \in called /\ indep_measures) =>
          /\ pc # "exit"
          /\ "sg_data" \in has

C4_Witness ==
    /\ Loaded /\ D = 6 /\ ~indep_measures /\ n_sources = 2
    /\ \E p, q \in 0..(sg_data.n - 1) :
          /\ StarOf(p) = 0 /\ StarOf(q) = 1
          /\ CoordOf(p) = 3 /\ CoordOf(q) = 3
          /\ entry(sg_data.a, sg_data.n, p, q) # 0

\* C5: load_data drops exactly the records that lack a required field and
\* keeps the others in catalog order: identifier k is that of the k-th
\* surviving record, whose D measurements minus the zero point are block k
\* of the mean vector, of which mu_data keeps the finite coordinates.
C5_SurvivorsInOrder ==
    /\ "ID" \in has =>
          /\ n_sources = Len(Survivors)
          /\ Len(ID) = Len(Survivors)
          /\ \A k \in 1..Len(Survivors) : ID[k] = StrVal(Survivors[k].source_id)
    /\ "mu_data" \in has =>
          LET block(k, a) == Sub(Survivors[k + 1].obs[MeasuredColumns(D)[a + 1]],
                                 at(zero_point, a))
              finite == {p \in 0..(Len(Survivors) * D - 1) :
                            block(p \div D, p % D) # NaN}
          IN  /\ {at(idx_data, j) : j \in 0..(Len(idx_data) - 1)} = finite
              /\ \A j \in 0..(Len(idx_data) - 2) : at(idx_data, j) < at(idx_data, j + 1)
              /\ Len(mu_data) = Len(idx_data)
              /\ \A j \in 0..(Len(idx_data) - 1) :
                    at(mu_data, j) = block(StarOf(j), CoordOf(j))

C5_Witness ==
    /\ Loaded /\ D = 3
    /\ Len(file_data) = 2 /\ ~Complete(file_data[1], D) /\ n_sources = 1
    /\ ID[1] = StrVal(file_data[2].source_id)
    /\ at(zero_point, 2) # 0
    /\ at(mu_data, 2) = file_data[2].obs["parallax"] - at(zero_point, 2)

(***************************************************************************)
(* The configuration specification: every configuration of the model on    *)
(* one catalog of a single star; constructor, load_data, setup and the     *)
(* entry of run, in any order.                                             *)
(***************************************************************************)
OneStar == <<Row(1, DefaultId(1), "ok")>>

TwoStars == <<Row(1, DefaultId(1), "ok"), Row(2, DefaultId(2), "far")>>

Transformations == {"pc", "mas", "deg"}
Parametrizations == {"central", "non-central"}

AllHyper == [alpha |-> Some(1), beta |-> Some(1), gamma |-> Some(1),
             delta |-> Some(1), eta |-> None]

\* every parameter inferred, or one of them fixed
ParVariants ==
    {NoParameters}
    \cup {[NoParameters EXCEPT ![f] = Some(1)] : f \in {"location", "scale", "rt", "gamma"}}
    \cup {[NoParameters EXCEPT !.weights = Some(w)] : w \in {<<30, 70>>, <<5, 95>>}}

\* every hyper-parameter given, or one of them missing
HypVariants ==
    {AllHyper} \cup {[AllHyper EXCEPT ![f] = None] : f \in {"alpha", "beta", "gamma", "delta"}}

InitConfig ==
    /\ NewProcess
    /\ file_data = OneStar
    /\ NoFiles
    /\ session = "inference"

ConstructConfig ==
    /\ pc = "start"
    /\ \E dimension \in Dimensions, pri \in Priors, trans \in Transformations,
          paramz \in Parametrizations, par \in ParVariants, hyp \in HypVariants :
          Construct(dimension, pri, par, hyp, trans, paramz,
                    [a \in 1..dimension |-> 0], TRUE)

LoadDataDefault == LoadData("Lindegren+2020")

RunBeginAny == \E opt \in BOOLEAN : RunBegin(opt, 1)

NextConfig == ConstructConfig \/ LoadDataDefault \/ Setup \/ RunBeginAny

SpecConfig == InitConfig /\ [][NextConfig]_vars

\* the configuration errors: a transformation that is not a known unit or
\* not allowed for the dimension, a None parameter without its
\* hyper-parameter, a prior family with a dimension or a parametrization
\* it does not allow
UnitError == transformation \notin {"pc", "mas"} \/ (D \in {3, 6} /\ transformation = "mas")
HyperError ==
    \/ parameters.location = None /\ hyper.alpha = None
    \/ parameters.scale = None /\ hyper.beta = None
    \/ prior \in {"GMM", "CGMM", "GUM"} /\ parameters.weights = None /\ hyper.delta = None
    \/ prior = "King" /\ parameters.rt = None /\ hyper.gamma = None
    \/ prior = "EFF" /\ parameters.gamma = None /\ hyper.gamma = None
FamilyError ==
    \/ prior \in {"EDSD", "Uniform"} /\ D # 1
    \/ prior \in {"CGMM", "GUM"} /\ D = 1
    \/ prior \in {"GMM", "CGMM", "GUM"} /\ parametrization # "central"
DimensionError == D \notin ValidD
ConfigurationError ==
    pc # "start" /\ (DimensionError \/ UnitError \/ HyperError \/ FamilyError)

\* C7 (as claimed): a configuration error ends the program before the
\* joint covariance is assembled and inverted.
C7_ErrorsBeforeCovariance ==
    ConfigurationError => has \cap {"sg_data", "tau_data"} = {}

\* C7 (amended): an invalid dimension ends the program in the constructor,
\* before any data is read; every other configuration error is raised by
\* setup, which then builds no model, so that run never starts fitting or
\* sampling; load_data does not look at the configuration.
C7_ErrorsBeforeModel ==
    /\ (pc # "start" /\ DimensionError) =>
          pc = "exit" /\ msg = "Dimension not valid!" /\ has = {} /\ called = {}
    /\ (ConfigurationError /\ ~DimensionError) =>
          /\ "Model" \notin has
          /\ run_pc = "idle"
          /\ "setup" \in called => (pc = "raised" /\ msg # "" /\ msg # "AttributeError")

C7_Witness ==
    /\ UnitError /\ ~DimensionError
    /\ Loaded
    /\ "setup" \in called /\ pc = "raised"

(***************************************************************************)
(* The sessions specification: catalogs with every kind of identifier, an  *)
(* inference session without optimisation that may be interrupted, and a   *)
(* later analysis session over the same output directory.                  *)
(***************************************************************************)
\* identifier cells: a name, a number, a number with a leading zero
IdCells == {<<"a">>, <<"7">>, <<"0", "7">>}

\* what an earlier complete run may have left in the output directory
PreviousFiles ==
    /\ file_ids = << << <<"a">> >> >>
    /\ ID_written = <<StrVal(<<"a">>)>>
    /\ file_chains = <<[run |-> PreviousRun, groups |-> {"posterior", "prior"},
                        dataset |-> {"posterior", "prior"}]>>
    /\ file_h5 = <<>>
    /\ file_draws = NoDraws
    /\ file_evidence = <<>>
    /\ file_traces = <<>>
    /\ file_model = <<>>
    /\ file_stats = <<>>

InitSessions ==
    /\ NewProcess
    /\ file_data \in CatalogsOfIds(IdCells, {"ok", "noerr"})
    /\ NoFiles \/ PreviousFiles
    /\ session = "inference"

ConstructDefault ==
    Construct(1, "Gaussian", FixedParameters, NoHyper, "pc", "central", <<0>>, TRUE)

RunBeginPlain == RunBegin(FALSE, 0)

RunSampleAny ==
    \E prior_predictive, posterior_predictive \in BOOLEAN :
        RunSample(prior_predictive, posterior_predictive)

WriteGroupAny == \E g \in {"posterior", "prior", "posterior_predictive"} : WriteGroup(g)

NextSessions ==
    \/ ConstructDefault \/ LoadDataDefault \/ Setup
    \/ RunBeginPlain \/ RunSampleAny \/ WriteGroupAny \/ Abort
    \/ NewSession \/ LoadTrace \/ SaveSamples

SpecSessions == InitSessions /\ [][NextSessions]_vars

\* str() of every element
as_strings(ids) == [k \in 1..Len(ids) |-> astype_str(ids[k])]

\* C6 (as claimed): in a later session where load_data is not called, the
\* identifiers that load_trace reads back from Identifiers.csv, and those
\* that save_samples reads back to name the sources of Samples.h5, are the
\* sequence load_data held in memory when it wrote the file, equal element
\* by element as strings.
C6_IdentifiersRoundTrip ==
    (session = "analysis" /\ "load_data" \notin called) =>
        /\ ("load_trace" \in called /\ "ID" \in has) => as_strings(ID) = ID_written
        /\ ("save_samples" \in called /\ pc = "live") => file_h5[1] = ID_written

\* a file that holds every group of the dataset it was written from
Whole(file) == file # <<>> /\ file[1].groups = file[1].dataset

\* C10 (as claimed): if run is aborted, file_chains is untouched or is a
\* complete dataset of this run, and load_trace never accepts a file that
\* was left partially written.
C10_NoPartialDataset ==
    /\ pc = "aborted" =>
          \/ file_chains = file_chains_before
          \/ Whole(file_chains) /\ file_chains[1].run = ThisRun
    /\ ds_posterior # None => Whole(file_chains)

\* the weaker half of C10 alone: no partially written file is accepted
C10_PartialNeverAccepted ==
    (session = "analysis" /\ ds_posterior # None) => Whole(file_chains)

(***************************************************************************)
(* The optimisation specification: one valid configuration, and run with   *)
(* optimize=True over every number of trials and every outcome of pm.fit.  *)
(***************************************************************************)
InitRun ==
    /\ NewProcess
    /\ file_data = TwoStars
    /\ NoFiles
    /\ session = "inference"

RunBeginOptimize == \E ntrials \in 0..MaxTrials : RunBegin(TRUE, ntrials)

RunTrialAny ==
    /\ run_pc = "fit"
    /\ \E raises \in BOOLEAN, hist \in Hists : RunTrial(raises, hist)

RunSamplePosterior == RunSample(FALSE, FALSE)

NextRun ==
    \/ ConstructDefault \/ LoadDataDefault \/ Setup
    \/ RunBeginOptimize \/ RunTrialAny \/ RunBest \/ RunSamplePosterior \/ WriteGroupAny

SpecRun == InitRun /\ [][NextRun]_vars

\* the final loss of a trial: the last value of its loss history
final_loss(hist) == hist[Len(hist)]

\* run has gone past the choice of the best trial
BestChosen == optimize /\ run_pc \in {"sample", "write", "done"}

\* C8 (as claimed): with optimize=True run executes opt_args["trials"]
\* trials, and no trial has a final loss lower than the final loss of the
\* trial used for the warm start.
C8_BestHasLowestFinalLoss ==
    BestChosen =>
        /\ Len(trials) = opt_trials
        /\ \A t \in 1..Len(trials) :
              ~float_less(final_loss(trials[t]), final_loss(trials[best + 1]))

\* C9 (as claimed): a trial that raises is fatal only if it is the last one
\* and every other trial ended with a non-finite loss; the trial selected
\* as best ended with a finite loss whenever some trial did; and run does
\* not go on to sample without a report when no trial ended with a finite
\* loss.
C9_DivergedTrialsTolerated ==
    /\ msg = "FloatingPointError" =>
          /\ Len(trials) + 1 = opt_trials
          /\ \A t \in 1..Len(trials) : ~isfinite(final_loss(trials[t]))
    /\ (BestChosen /\ \E t \in 1..Len(trials) : isfinite(final_loss(trials[t]))) =>
          isfinite(final_loss(trials[best + 1]))
    /\ (BestChosen /\ \A t \in 1..Len(trials) : ~isfinite(final_loss(trials[t]))) =>
          msg # ""

\* the parts of C9 one by one
C9_RaiseIsNotFatal == msg = "FloatingPointError" => Len(trials) + 1 = opt_trials
C9_BestIsFinite ==
    (BestChosen /\ \E t \in 1..Len(trials) : isfinite(final_loss(trials[t]))) =>
        isfinite(final_loss(trials[best + 1]))
C9_NotSilent ==
    (BestChosen /\ \A t \in 1..Len(trials) : ~isfinite(final_loss(trials[t]))) => msg # ""

AssertionMessages ==
    {"Transformation must be either pc or mas.", "3D model only works in pc.",
     "hyper_alpha must be specified.", "hyper_beta must be specified.",
     "EDSD prior is only valid for 1D version.",
     "Uniform prior is only valid for 1D version.",
     "hyper_delta must be specified.", "weights must be greater than 5%.",
     "Only the central parametrization is valid for this configuration.",
     "This prior is not valid for 1D version.", "hyper_gamma must be specified."}

\* setup has ended with an AssertionError and has built no model
SetupAsserted == pc = "raised" /\ msg \in AssertionMessages /\ "Model" \notin has

SetupCalled == "setup" \in called

Mixture == prior \in {"GMM", "CGMM", "GUM"}

\* weights are fractions in percent: 5 is the floor of 0.05
WeightsAboveFloor ==
    /\ parameters.weights # None
    /\ \A k \in 1..Len(parameters.weights[1]) : parameters.weights[1][k] > 5

WeightsGiven ==
    \/ parameters.weights = None /\ hyper.delta # None
    \/ WeightsAboveFloor

\* C11: for GMM, CGMM and GUM setup builds a model only if the
\* parametrization is central and the weights are None with delta given or
\* all above 0.05; an explicit weight at or below 0.05, weights None with
\* delta None, or a non-central parametrization ends setup with an
\* assertion error.
C11_MixtureRules ==
    (Mixture /\ SetupCalled) =>
        /\ "Model" \in has => (parametrization = "central" /\ WeightsGiven)
        /\ (parametrization # "central" \/ ~WeightsGiven) => SetupAsserted

C11_Witness ==
    /\ Mixture /\ SetupCalled
    /\ parameters.weights # None /\ ~WeightsAboveFloor
    /\ msg = "weights must be greater than 5%."

\* a None parameter whose hyper-parameter is None too
MissingAlpha == parameters.location = None /\ hyper.alpha = None
MissingBeta == parameters.scale = None /\ hyper.beta = None
MissingGammaKing == prior = "King" /\ parameters.rt = None /\ hyper.gamma = None
MissingGammaEFF == prior = "EFF" /\ parameters.gamma = None /\ hyper.gamma = None
MissingHyper == MissingAlpha \/ MissingBeta \/ MissingGammaKing \/ MissingGammaEFF

HyperMessages ==
    {"hyper_alpha must be specified.", "hyper_beta must be specified.",
     "hyper_gamma must be specified."}

\* C12: setup ends with an assertion error whenever location and alpha,
\* scale and beta, the rt of King and gamma, or the gamma of EFF and gamma
\* are both None; it raises none of the three messages of these rules when
\* every None parameter of a pair has its hyper-parameter or is fixed.
C12_HyperRules ==
    SetupCalled =>
        /\ MissingHyper => SetupAsserted
        /\ MissingAlpha => msg \in {"hyper_alpha must be specified.",
                                    "Transformation must be either pc or mas.",
                                    "3D model only works in pc."}
        /\ msg \in HyperMessages => MissingHyper
        /\ msg = "hyper_alpha must be specified." => MissingAlpha
        /\ msg = "hyper_beta must be specified." => MissingBeta
        /\ msg = "hyper_gamma must be specified." => (MissingGammaKing \/ MissingGammaEFF)

C12_Witness ==
    /\ SetupCalled
    /\ MissingGammaKing /\ ~MissingAlpha /\ ~MissingBeta
    /\ msg = "hyper_gamma must be specified."
    /\ pc = "raised"

\* the unit and dimension rules of setup
UnknownUnit == transformation \notin {"pc", "mas"}
AngularUnitIn3D == D \in {3, 6} /\ transformation = "mas"
OnlyFor1D == prior \in {"EDSD", "Uniform"} /\ D # 1
NotFor1D == prior \in {"CGMM", "GUM"} /\ D = 1

\* C13: setup ends with an assertion error and builds no model whenever the
\* transformation is neither "pc" nor "mas", D is 3 or 6 with "mas", the
\* prior is EDSD or Uniform with D not 1, or the prior is CGMM or GUM with
\* D = 1; a setup that fails never creates or replaces self.Model.
C13_UnitAndDimensionRules ==
    /\ (SetupCalled /\ D \in ValidD
          /\ (UnknownUnit \/ AngularUnitIn3D \/ OnlyFor1D \/ NotFor1D)) => SetupAsserted
    /\ (SetupCalled /\ UnknownUnit) => msg = "Transformation must be either pc or mas."
    /\ (SetupCalled /\ pc \in {"raised", "exit"} /\ msg \in AssertionMessages) =>
          ("Model" \notin has /\ Model = NoModel)

C13_Witness ==
    /\ SetupCalled /\ "load_data" \in called
    /\ NotFor1D /\ ~UnknownUnit
    /\ msg = "This prior is not valid for 1D version."
    /\ pc = "raised" /\ Model = NoModel

(***************************************************************************)
(* The classification specification: a session over the outputs of a       *)
(* complete run of a mixture model with one star, for every posterior of   *)
(* the model; the session may load the data and run again.                 *)
(***************************************************************************)
Positions == {0, 4}
ComponentLocs == {<<0, 4>>, <<4, 0>>}
ComponentVars == {<<1, 1>>, <<1, 4>>}

\* the posterior groups with n_stars stars and up to MaxDraws draws
DrawSets(n_stars) ==
    UNION {[src : [1..n -> [1..n_stars -> Positions]],
            loc : [1..n -> ComponentLocs],
            var : [1..n -> ComponentVars]] : n \in 1..MaxDraws}

\* the files a complete run on the catalog leaves, but for the draws
OutputsOf(catalog) ==
    /\ file_ids = <<[k \in 1..Len(catalog) |-> catalog[k].source_id]>>
    /\ ID_written = [k \in 1..Len(catalog) |-> StrVal(catalog[k].source_id)]
    /\ file_h5 = <<>>
    /\ file_stats = <<>>
    /\ file_model = <<>>
    /\ file_traces = <<>>
    /\ file_evidence = <<>>

WholeDataset(groups) == <<[run |-> PreviousRun, groups |-> groups, dataset |-> groups]>>

InitClassify ==
    /\ NewProcess
    /\ file_data = OneStar
    /\ OutputsOf(OneStar)
    /\ file_chains = WholeDataset({"posterior", "prior"})
    /\ file_draws \in DrawSets(1)
    /\ session = "inference"

ConstructMixture ==
    /\ pc = "start"
    /\ \E pri \in {"GMM", "CGMM"} :
          Construct(3, pri, FixedParameters, AllHyper, "pc", "central", <<0, 0, 0>>, TRUE)

PlotModelAny ==
    /\ pc = "live"
    /\ \E n_samples \in 1..(MaxDraws + 1) : PlotModel(n_samples)

NextClassify ==
    \/ ConstructMixture \/ LoadDataDefault \/ Setup
    \/ RunBeginPlain \/ RunSamplePosterior \/ WriteGroupAny
    \/ LoadTrace \/ SaveStatistics \/ PlotModelAny

SpecClassify == InitClassify /\ [][NextClassify]_vars

(***************************************************************************)
(* The analysis specification: a process that finds the files of a         *)
(* complete run on its catalog and analyses them, with or without loading  *)
(* the catalog again.                                                      *)
(***************************************************************************)
\* a posterior group of n draws for n_stars stars, all at the first component
PlainDraws(n_stars, n) ==
    [src |-> [d \in 1..n |-> [i \in 1..n_stars |-> 0]],
     loc |-> [d \in 1..n |-> <<0, 4>>],
     var |-> [d \in 1..n |-> <<1, 1>>]]

\* Identifiers.csv as load_data of the earlier run wrote it
IdentifiersOf(catalog) ==
    to_csv(load_data_result(catalog, "Lindegren+2020", 1, <<0>>, TRUE, 0).ID)

\* one star under each kind of identifier, and two stars
AnalysisCatalogs ==
    {<<Row(1, c, "ok")>> : c \in IdCells}
        \cup {<<Row(1, <<"a">>, "ok"), Row(2, <<"0", "7">>, "ok")>>}

InitAnalysis ==
    /\ NewProcess
    /\ file_data \in AnalysisCatalogs
    /\ file_ids = <<IdentifiersOf(file_data)>>
    /\ ID_written = load_data_result(file_data, "Lindegren+2020", 1, <<0>>, TRUE, 0).ID
    /\ file_h5 = <<>> /\ file_stats = <<>> /\ file_model = <<>>
    /\ file_traces = <<>> /\ file_evidence = <<>>
    /\ file_chains \in {WholeDataset({"posterior", "prior"}), WholeDataset({"posterior"})}
    /\ file_draws \in {PlainDraws(Len(file_data), n) : n \in 1..MaxDraws}
    /\ session = "analysis"

ConstructAnalysis ==
    /\ pc = "start"
    /\ \E dim \in ValidD :
       \E pri \in IF dim = 3 THEN {"Gaussian", "GMM"} ELSE {"Gaussian"} :
          Construct(dim, pri, FixedParameters, AllHyper, "pc", "central",
                    [a \in 1..dim |-> 0], TRUE)

\* the identifiers a caller may ask plot_chains for: those of the catalogs as
\* text, one that no catalog has, and a number
Requests == {StrVal(c) : c \in IdCells \cup {<<"b">>}} \cup {IntVal(7)}

PlotChainsAny ==
    /\ pc = "live"
    /\ \E req \in Requests : PlotChains(req)

EvidenceAny ==
    /\ pc = "live"
    /\ \E logZ \in {-3, 2}, logZerr \in {0, 1} : Evidence(logZ, logZerr)

NextAnalysis ==
    \/ ConstructAnalysis \/ LoadDataDefault \/ LoadTrace
    \/ Convergence \/ SaveStatistics \/ SaveSamples
    \/ PlotModelAny \/ PlotChainsAny \/ EvidenceAny

SpecAnalysis == InitAnalysis /\ [][NextAnalysis]_vars

\* C16: evidence fails with its assertion, writing nothing, when D is not 1;
\* for D = 1 with the data loaded it writes Evidence.csv, whose logZ row has
\* lower = logZ - logZerr, median = logZ and upper = logZ + logZerr.
C16_EvidenceContract ==
    "evidence" \in called =>
        IF D # 1
        THEN /\ pc = "raised"
             /\ msg = "Evidence is only implemented for dimension 1."
             /\ file_evidence = <<>>
        ELSE {"mu_data", "sg_data"} \subseteq has =>
                /\ file_evidence # <<>>
                /\ \E logZ \in {-3, 2}, logZerr \in {0, 1} :
                      file_evidence[1] =
                          Evidence1D(mu_data, sg_data, prior, parameters, hyper,
                                     logZ, logZerr).rows

\* C17: for every valid D, save_statistics after load_trace completes and
\* writes Sources_statistics.csv with one row per identifier, carrying the
\* statistics and the group; for D in {3, 6} each row carries the distance
\* of the mode, the mean and the median, each the norm of the X, Y, Z columns
\* of its own statistic.
C17_StatisticsForEveryDimension ==
    ({"load_trace", "save_statistics"} \subseteq called /\ "ds_posterior" \in has) =>
        /\ msg # "KeyError"
        /\ file_stats # <<>>
        /\ Len(file_stats[1]) = Len(ID)
        /\ \A i \in 1..Len(ID) :
              /\ file_stats[1][i].id = ID[i]
              /\ file_stats[1][i].group = df_groups[i]
              /\ source_columns(D) \subseteq file_stats[1][i].columns
              /\ D \in {3, 6} =>
                    \A st \in {"mode", "mean", "median"} :
                       /\ <<st, "_distance">> \in file_stats[1][i].columns
                       /\ file_stats[1][i].distances[st] =
                             {<<st, "_X">>, <<st, "_Y">>, <<st, "_Z">>}

\* C19: plot_chains exits, naming the identifier, exactly when the requested
\* identifier is not in the loaded identifiers; an identifier that load_data
\* held for the catalog is found, whether the identifiers are those of
\* load_data or those that load_trace read from Identifiers.csv.
C19_LoadedIdentifiersAreFound ==
    /\ (pc = "exit" /\ msg = "is not valid") =>
          /\ msg_id # <<>>
          /\ msg_id[1] \notin SeqRange(ID)
          /\ msg_id[1] \notin SeqRange(ID_written)
    /\ file_traces # <<>> => file_traces[1].idx # {}

\* the dataset file has a posterior group and no prior group
PosteriorOnly ==
    /\ file_chains # <<>>
    /\ "posterior" \in file_chains[1].groups
    /\ "prior" \notin file_chains[1].groups

\* the step is the first call of the method
FirstCall(method) == method \notin called /\ method \in called'

\* C18: load_trace on a dataset with a posterior group and no prior group
\* completes with ds_prior = None and every variable list set; then
\* plot_model extracts no prior, draws no prior ellipses and has no prior
\* legend entry, and what convergence, save_statistics and save_samples do is
\* determined by the posterior, the identifiers and the dimension alone, the
\* same with and without a prior group.
C18_PosteriorOnlyDataset ==
    [][/\ (FirstCall("load_trace") /\ PosteriorOnly /\ ("ID" \in has \/ file_ids # <<>>)) =>
              /\ pc' = "live"
              /\ ds_prior' = None /\ ds_posterior' # None
              /\ {"ds_posterior", "ds_prior"} \cup variable_lists \subseteq has'
       /\ (ds_prior = None /\ file_model' # file_model) =>
              /\ ~file_model'[1].prior_extracted
              /\ ~file_model'[1].prior_ellipses
              /\ file_model'[1].legend = <<"Posterior", "Data">>
       /\ (FirstCall("convergence") /\ "ds_posterior" \in has) =>
              /\ pc' = "live"
              /\ diagnostics' = <<convergence_report(draws)>>
       /\ (FirstCall("save_statistics") /\ "ds_posterior" \in has) =>
              IF D \in {3, 6}
              THEN pc' = "live" /\ file_stats' = <<source_rows(D, ID, df_groups')>>
              ELSE pc' = "raised" /\ msg' = "KeyError" /\ file_stats' = file_stats
       /\ (FirstCall("save_samples") /\ "ds_posterior" \in has) =>
              /\ pc' = "live"
              /\ file_h5' = <<as_strings(read_ids(file_ids[1]))>>]_vars

C18_Witness ==
    /\ pc = "live"
    /\ PosteriorOnly /\ "ds_prior" \in has /\ ds_prior = None
    /\ {"load_trace", "plot_model", "convergence", "save_statistics", "save_samples"}
          \subseteq called
    /\ file_model # <<>> /\ file_stats # <<>> /\ file_h5 # <<>> /\ diagnostics # <<>>

\* the vote of star i when its position and the components are those of draw d
same_draw_vote(i, d) ==
    np_argmax([k \in 1..Len(draws.loc[d + 1]) |->
                  logpdf(D, draws.src[d + 1][i], draws.loc[d + 1][k], draws.var[d + 1][k])])

\* C14 (as claimed): for GMM and CGMM the stored label of every star is the
\* most frequent vote over some sample of distinct draws, as many as were
\* sampled, where each vote compares the position of the star and the
\* components of one and the same draw.
C14_VotesFromSameDraw ==
    ("df_groups" \in has /\ prior \in {"GMM", "CGMM"}) =>
        \E ds \in choice(n_draws(draws), Len(sample_idx)) :
            \A i \in 1..Len(ID) :
                df_groups[i] = st_mode([j \in 1..Len(ds) |-> same_draw_vote(i, ds[j])])

\* C15: run and load_trace compute no classification; _classify runs in a
\* call of save_statistics or plot_model that finds no stored assignment,
\* and once df_groups is stored every later call of either leaves it as it
\* is and does not run _classify again.
C15_ClassifiedOnceOnDemand ==
    [][/\ "df_groups" \in has =>
            (df_groups' = df_groups /\ n_classify' = n_classify /\ "df_groups" \in has')
       /\ n_classify' # n_classify =>
            /\ "df_groups" \notin has /\ "df_groups" \in has'
            /\ n_classify' = n_classify + 1
            /\ called' \cap {"save_statistics", "plot_model"} # {}
            /\ run_pc' = run_pc /\ ds_posterior' = ds_posterior
       /\ (run_pc' # run_pc \/ ds_posterior' # ds_posterior) =>
            (n_classify' = n_classify /\ df_groups' = df_groups)]_vars

C15_Witness ==
    /\ {"save_statistics", "plot_model", "load_trace", "run"} \subseteq called
    /\ file_stats # <<>> /\ file_model # <<>>
    /\ n_classify = 1 /\ "df_groups" \in has
    /\ pc = "live"


(***************************************************************************)
(* The identifier file and a load_data that fails.                         *)
(***************************************************************************)
\* the samples in dir_out are those of the earlier run, saved with the
\* identifiers that run wrote
SamplesOfPreviousRun ==
    /\ file_chains # <<>>
    /\ file_chains[1].run = PreviousRun

\* a process that loads one of the catalogs of the model into a dir_out that
\* holds the files of an earlier complete run, and a later process there
InitReload ==
    /\ NewProcess
    /\ file_data \in CatalogsOfKinds(Kinds) \ {<<>>}
    /\ PreviousFiles
    /\ session = "inference"

NextReload == ConstructData \/ LoadDataAny \/ NewSession \/ LoadTrace

SpecReload == InitReload /\ [][NextReload]_vars

\* C21: a load_data call that ends in a fatal error leaves an existing
\* Identifiers.csv unchanged, so the identifiers that load_trace reloads are
\* still those the samples in dir_out were saved with.
C21_FailedLoadKeepsIdentifiers ==
    [][(FirstCall("load_data") /\ pc' \in {"exit", "raised"} /\ SamplesOfPreviousRun) =>
          /\ file_ids' = file_ids
          /\ read_ids(file_ids'[1]) = read_ids(<< <<"a">> >>)]_vars

(***************************************************************************)
(* One object that loads the dataset again after it was written anew.      *)
(***************************************************************************)
\* az.to_netcdf of a complete run of another process on the same catalog
\* replaces chains.nc
OverwriteChains ==
    /\ file_chains # <<>>
    /\ file_chains[1].run = PreviousRun
    /\ \E dr \in {ds \in DrawSets(1) : n_draws(ds) = 1} :
          /\ dr # file_draws
          /\ file_draws' = dr
    /\ file_chains' = <<[run |-> ThisRun, groups |-> {"posterior", "prior"},
                         dataset |-> {"posterior", "prior"}]>>
    /\ UNCHANGED <<ctlVars, cfgVars, dataVars, Model, file_data, file_ids, ID_written,
                   file_h5, session, runVars, traceVars, anaVars, file_stats,
                   file_model, file_traces, file_evidence>>

NextRepeat ==
    \/ ConstructMixture \/ LoadTrace \/ SaveStatistics \/ PlotModelAny
    \/ OverwriteChains

SpecRepeat == InitClassify /\ [][NextRepeat]_vars

\* the assignments that _classify can compute from a posterior group
assignments_of(dr, ids) ==
    {classify(prior, D, dr, idx, ids) :
        idx \in UNION {choice(n_draws(dr), n) : n \in 1..n_draws(dr)}}

\* C22: whenever save_statistics writes or plot_model plots, the group
\* assignment it uses was computed from the posterior that the most recent
\* load_trace loaded, and has one entry per identifier.
C22_GroupsOfLoadedPosterior ==
    [][(/\ pc' = "live"
        /\ \/ FirstCall("save_statistics") \/ FirstCall("plot_model")
           \/ file_stats' # file_stats \/ file_model' # file_model) =>
          /\ Len(df_groups') = Len(ID')
          /\ df_groups' \in assignments_of(draws', ID')]_vars

(***************************************************************************)
(* The prior families: one object of each family, set up and analysed.     *)
(***************************************************************************)
Families == {"Gaussian", "King", "GMM", "CGMM", "GUM"}

InitFamilies ==
    /\ NewProcess
    /\ file_data = OneStar
    /\ OutputsOf(OneStar)
    /\ file_chains = WholeDataset({"posterior", "prior"})
    /\ file_draws \in {ds \in DrawSets(1) : n_draws(ds) = 1}
    /\ session = "inference"

ConstructFamily ==
    /\ pc = "start"
    /\ \E pri \in Families, paramz \in Parametrizations :
       \E par \in {FixedParameters} \cup
                  {[FixedParameters EXCEPT !.weights = Some(w)] : w \in {<<30, 70>>, <<5, 95>>}} :
          Construct(3, pri, par, AllHyper, "pc", paramz, <<0, 0, 0>>, TRUE)

NextFamilies ==
    \/ ConstructFamily \/ LoadDataDefault \/ Setup \/ LoadTrace \/ SaveStatistics

SpecFamilies == InitFamilies /\ [][NextFamilies]_vars

\* the priors for which setup enforces the rules of the mixtures
SetupMixture(pri) ==
    assert_prior(3, pri, FixedParameters, AllHyper, "non-central")
        = "Only the central parametrization is valid for this configuration."

\* C23: the priors that setup holds to the mixture rules are those that
\* _classify classifies by vote and that save_statistics restricts to the
\* chains chain_gmm; only the other priors get the constant group 0 and
\* statistics over all chains.
C23_SameMixtureFamilies ==
    (pc = "live" /\ file_stats # <<>> /\ stats_chains # <<>> /\ n_classify = 1) =>
        /\ SetupMixture(prior) <=> sample_idx # <<>>
        /\ SetupMixture(prior) <=> stats_chains[1] = chain_gmm
        /\ ~SetupMixture(prior) =>
              /\ \A i \in 1..Len(df_groups) : df_groups[i] = 0
              /\ stats_chains[1] = AllChains

====
